---- MODULE Spec2Model ----
(***************************************************************************)
(* doxy2mdx: the XML parser (XmlParser.cpp), the tree-to-MDX renderer and  *)
(* the batch driver (Converter), the heading-level computation, and the    *)
(* configuration (Config.cpp: parseYamlLike, parseConfig, applyCliArgs).   *)
(*                                                                         *)
(* Text is modelled by TLA+ strings; positions are 0-based as in the C++   *)
(* source, and substr/find follow std::string_view.                        *)
(***************************************************************************)
EXTENDS Integers, Sequences, FiniteSets, TLC

VARIABLES
    \* XmlParser
    data,           \* XmlParser::data_
    pos,            \* XmlParser::pos_
    pc,             \* where the parser is: parse, node, attrs, content, done, error
    stack,          \* locals of the active parseNode calls (innermost last)
    root,           \* the tree parse() returned, NoTree before / on error
    error,          \* what() of the exception parse() threw, "" if none
    \* decodeEntities(text)
    inText,         \* the argument
    decoded,        \* the result
    dpc,            \* in, out
    \* Converter: config_, and one call of a render method
    headingOffset,  \* config_.headingOffset
    hLevel,         \* heading(level, headingOffset): the nominal level, 0 before
    hMarker,        \* the heading marker returned
    tree,           \* the tree parseXmlFile handed to renderDocument
    op,             \* the render method called last, "" before
    subject,        \* its node
    rendered,       \* the text it returned
    docOut,         \* what the renderDocument calls so far returned, in order
    \* Converter::run
    files,          \* the directory entries under inputXmlDir, each with its fate
    emitIndex,      \* config_.emitIndex
    remaining,      \* entries the directory iterator has not reached
    written,        \* documents whose .mdx was written
    generated,      \* run()'s vector `generated`
    indexWritten,   \* whether index.mdx was written
    runpc,          \* start, loop, done, failed
    \* applyCliArgs(argc, argv)
    argv,           \* argv[1..argc-1]
    configFile,     \* the lines of the file every --config argument names
    argi,           \* the loop variable i
    cfg,            \* the local cfg
    cpc             \* args, done, error

parserVars == <<data, pos, pc, stack, root, error>>
decodeVars == <<inText, decoded, dpc>>
headingVars == <<hLevel, hMarker>>
renderVars == <<tree, op, subject, rendered, docOut>>
runVars == <<files, emitIndex, remaining, written, generated, indexWritten, runpc>>
configVars == <<argv, configFile, argi, cfg, cpc>>

vars == <<parserVars, decodeVars, headingOffset, headingVars, renderVars, runVars,
          configVars>>

----------------------------------------------------------------------------
(* std::string_view primitives *)

Min(a, b) == IF a <= b THEN a ELSE b

NPOS == -1

\* s.substr(i, n): at most n characters from 0-based index i, clamped to the end
substr(s, i, n) ==
    IF i >= Len(s) \/ n <= 0 THEN "" ELSE SubSeq(s, i + 1, Min(i + n, Len(s)))

charAt(s, i) == SubSeq(s, i + 1, i + 1)

\* s.find(marker, from): the least index >= from where marker occurs, else NPOS
RECURSIVE find(_, _, _)
find(s, marker, from) ==
    IF from + Len(marker) > Len(s) THEN NPOS
    ELSE IF substr(s, from, Len(marker)) = marker THEN from
    ELSE find(s, marker, from + 1)

\* the value get()/peek() give at end of input ('\0' in the source)
NUL == ""

Spaces == {" ", "\t", "\n", "\r", "\f"}

Alnum ==
    {"a","b","c","d","e","f","g","h","i","j","k","l","m","n","o","p","q","r",
     "s","t","u","v","w","x","y","z",
     "A","B","C","D","E","F","G","H","I","J","K","L","M","N","O","P","Q","R",
     "S","T","U","V","W","X","Y","Z",
     "0","1","2","3","4","5","6","7","8","9"}

NameChars == Alnum \cup {"_", "-", ":"}

----------------------------------------------------------------------------
(* XmlNode *)

NoTree == [none |-> TRUE]

XmlNode(name, text, attributes, children) ==
    [name |-> name, text |-> text, attributes |-> attributes, children |-> children]

TextNode(text) == XmlNode("#text", text, <<>>, <<>>)

----------------------------------------------------------------------------
(* XmlParser: scanning helpers, as functions of (data_, pos_) *)

eofAt(d, p) == p >= Len(d)

peekAt(d, p) == IF eofAt(d, p) THEN NUL ELSE charAt(d, p)

startsWithAt(d, p, s) == substr(d, p, Len(s)) = s

\* the position skipWhitespace() leaves
RECURSIVE skipWhitespace(_, _)
skipWhitespace(d, p) ==
    IF ~eofAt(d, p) /\ peekAt(d, p) \in Spaces THEN skipWhitespace(d, p + 1) ELSE p

\* the position parseName() leaves; the name is substr(d, p, end - p)
RECURSIVE parseNameEnd(_, _)
parseNameEnd(d, p) ==
    IF ~eofAt(d, p) /\ peekAt(d, p) \in NameChars THEN parseNameEnd(d, p + 1) ELSE p

parseName(d, p) == substr(d, p, parseNameEnd(d, p) - p)

\* the scan of an attribute value: the first position >= p that is end of
\* input or holds the quote
RECURSIVE valueEnd(_, _, _)
valueEnd(d, p, quote) ==
    IF ~eofAt(d, p) /\ peekAt(d, p) # quote THEN valueEnd(d, p + 1, quote) ELSE p

\* a faulty decodeEntities: the branch for &apos; is missing
RECURSIVE decodeFromNoApos(_, _, _)
decodeFromNoApos(text, i, out) ==
    IF i >= Len(text) THEN out
    ELSE IF charAt(text, i) = "&" THEN
        IF substr(text, i, 4) = "&lt;" THEN decodeFromNoApos(text, i + 4, out \o "<")
        ELSE IF substr(text, i, 4) = "&gt;" THEN decodeFromNoApos(text, i + 4, out \o ">")
        ELSE IF substr(text, i, 5) = "&amp;" THEN decodeFromNoApos(text, i + 5, out \o "&")
        ELSE IF substr(text, i, 6) = "&quot;" THEN decodeFromNoApos(text, i + 6, out \o "\"")
        ELSE decodeFromNoApos(text, i + 1, out \o "&")
    ELSE decodeFromNoApos(text, i + 1, out \o charAt(text, i))

\* decodeEntities: the loop over i with the output built so far
RECURSIVE decodeFrom(_, _, _)
decodeFrom(text, i, out) ==
    IF i >= Len(text) THEN out
    ELSE IF charAt(text, i) = "&" THEN
        IF substr(text, i, 4) = "&lt;" THEN decodeFrom(text, i + 4, out \o "<")
        ELSE IF substr(text, i, 4) = "&gt;" THEN decodeFrom(text, i + 4, out \o ">")
        ELSE IF substr(text, i, 5) = "&amp;" THEN decodeFrom(text, i + 5, out \o "&")
        ELSE IF substr(text, i, 6) = "&quot;" THEN decodeFrom(text, i + 6, out \o "\"")
        ELSE IF substr(text, i, 6) = "&apos;" THEN decodeFrom(text, i + 6, out \o "'")
        ELSE decodeFrom(text, i + 1, out \o "&")
    ELSE decodeFrom(text, i + 1, out \o charAt(text, i))

decodeEntities(text) == decodeFrom(text, 0, "")

----------------------------------------------------------------------------
(* XmlParser: the recursive descent, one step per loop iteration *)

eof == eofAt(data, pos)
startsWith(s) == startsWithAt(data, pos, s)

Top == stack[Len(stack)]

Frame(name) == [name |-> name, attributes |-> <<>>, children |-> <<>>, textBuffer |-> ""]

NodeOf(f) == XmlNode(f.name, "", f.attributes, f.children)

SetTop(stk, f) == [stk EXCEPT ![Len(stk)] = f]

Pop(stk) == SubSeq(stk, 1, Len(stk) - 1)

\* the text buffer pushed as a decoded text child, when it is not empty
Flushed(f) ==
    IF f.textBuffer # ""
    THEN [f EXCEPT !.children = Append(@, TextNode(decodeEntities(f.textBuffer))),
                   !.textBuffer = ""]
    ELSE f

\* throw std::runtime_error(msg): every active call is unwound, parse() returns nothing
Throw(msg, p) ==
    /\ pc' = "error"
    /\ error' = msg
    /\ pos' = p
    /\ stack' = <<>>
    /\ root' = NoTree
    /\ data' = data

\* parseNode returns node with pos_ = p; callers are the calls below it:
\* the caller is parse() (no call below) or the content loop of the parent
Return(node, p, callers) ==
    /\ pos' = p
    /\ error' = error
    /\ data' = data
    /\ IF callers = <<>>
       THEN /\ root' = node
            /\ pc' = "done"
            /\ stack' = <<>>
       ELSE /\ root' = root
            /\ pc' = "content"
            /\ stack' = SetTop(callers,
                   [callers[Len(callers)] EXCEPT !.children = Append(@, node)])

\* parse(), up to its call of parseNode
Parse ==
    /\ UNCHANGED <<decodeVars, headingOffset, headingVars, renderVars, runVars, configVars>>
    /\ pc = "parse"
    /\ LET p0 == skipWhitespace(data, pos)
           hasProlog == startsWithAt(data, p0, "<?")
           fProlog == find(data, "?>", p0)
           p1 == IF hasProlog THEN skipWhitespace(data, fProlog + 2) ELSE p0
           hasDoctype == startsWithAt(data, p1, "<!DOCTYPE")
           fDoctype == find(data, ">", p1)
           p2 == IF hasDoctype THEN skipWhitespace(data, fDoctype + 1) ELSE p1
       IN  IF hasProlog /\ fProlog = NPOS
           THEN Throw("Unexpected end of XML while searching for marker", p0)
           ELSE IF hasDoctype /\ fDoctype = NPOS
           THEN Throw("Unexpected end of XML while searching for marker", p1)
           ELSE /\ pos' = p2
                /\ pc' = "node"
                /\ UNCHANGED <<data, stack, root, error>>

\* parseNode from its entry to the attribute loop
NodeHead ==
    /\ UNCHANGED <<decodeVars, headingOffset, headingVars, renderVars, runVars, configVars>>
    /\ pc = "node"
    /\ IF ~startsWith("<")
       THEN Throw("Expected '<'", pos)
       ELSE LET p1 == pos + 1
            IN  IF startsWithAt(data, p1, "!--")
                THEN LET f == find(data, "-->", p1 + 3)
                     IN  IF f = NPOS
                         THEN Throw("Unexpected end of XML while searching for marker", p1 + 3)
                         ELSE /\ pos' = skipWhitespace(data, f + 3)
                              /\ pc' = "node"
                              /\ UNCHANGED <<data, stack, root, error>>
                ELSE IF startsWithAt(data, p1, "![CDATA[")
                THEN LET f == find(data, "]]>", p1 + 8)
                     IN  IF f = NPOS
                         THEN Throw("Unexpected end of XML while searching for marker", p1 + 8)
                         ELSE Return(TextNode(substr(data, p1 + 8, f - (p1 + 8))), f + 3, stack)
                ELSE LET e == parseNameEnd(data, p1)
                     IN  /\ stack' = Append(stack, Frame(substr(data, p1, e - p1)))
                         /\ pos' = skipWhitespace(data, e)
                         /\ pc' = "attrs"
                         /\ UNCHANGED <<data, root, error>>

inAttrLoop == ~eof /\ ~startsWith(">") /\ ~startsWith("/>")

\* one iteration of the attribute loop
AttrStep ==
    /\ UNCHANGED <<decodeVars, headingOffset, headingVars, renderVars, runVars, configVars>>
    /\ pc = "attrs"
    /\ inAttrLoop
    /\ LET e == parseNameEnd(data, pos)
           attrName == substr(data, pos, e - pos)
           pEq == skipWhitespace(data, e)
           pQuote == skipWhitespace(data, Min(pEq + 1, Len(data)))
           quote == peekAt(data, pQuote)
           pValue == Min(pQuote + 1, Len(data))
           pEnd == valueEnd(data, pValue, quote)
           value == substr(data, pValue, pEnd - pValue)
       IN  IF peekAt(data, pEq) # "="
           THEN Throw("Expected '=' after attribute name", Min(pEq + 1, Len(data)))
           ELSE IF quote # "\"" /\ quote # "'"
           THEN Throw("Expected quote for attribute value", pValue)
           ELSE IF peekAt(data, pEnd) # quote
           THEN Throw("Unterminated attribute value", pEnd)
           ELSE /\ stack' = SetTop(stack, [Top EXCEPT !.attributes =
                        Append(@, [name |-> attrName, value |-> decodeEntities(value)])])
                /\ pos' = skipWhitespace(data, pEnd + 1)
                /\ UNCHANGED <<data, pc, root, error>>

\* after the attribute loop: "/>", or the '>' that opens the content
AttrEnd ==
    /\ UNCHANGED <<decodeVars, headingOffset, headingVars, renderVars, runVars, configVars>>
    /\ pc = "attrs"
    /\ ~inAttrLoop
    /\ IF startsWith("/>")
       THEN Return(NodeOf(Top), pos + 2, Pop(stack))
       ELSE IF peekAt(data, pos) # ">"
       THEN Throw("Expected '>'", Min(pos + 1, Len(data)))
       ELSE /\ pos' = pos + 1
            /\ pc' = "content"
            /\ UNCHANGED <<data, stack, root, error>>

\* a faulty closing-tag step: the name is not compared with the open element's
ContentCloseLenient ==
    /\ UNCHANGED <<decodeVars, headingOffset, headingVars, renderVars, runVars, configVars>>
    /\ pc = "content"
    /\ ~eof
    /\ startsWith("</")
    /\ LET e == parseNameEnd(data, pos + 2)
           pGt == skipWhitespace(data, e)
       IN  IF peekAt(data, pGt) # ">"
           THEN Throw("Expected '>' after closing tag", Min(pGt + 1, Len(data)))
           ELSE Return(NodeOf(Flushed(Top)), pGt + 1, Pop(stack))

\* content loop, "</": the closing tag, then the flush and the return
ContentClose ==
    /\ UNCHANGED <<decodeVars, headingOffset, headingVars, renderVars, runVars, configVars>>
    /\ pc = "content"
    /\ ~eof
    /\ startsWith("</")
    /\ LET e == parseNameEnd(data, pos + 2)
           endName == substr(data, pos + 2, e - (pos + 2))
           pGt == skipWhitespace(data, e)
       IN  IF endName # Top.name
           THEN Throw("Mismatched closing tag", e)
           ELSE IF peekAt(data, pGt) # ">"
           THEN Throw("Expected '>' after closing tag", Min(pGt + 1, Len(data)))
           ELSE Return(NodeOf(Flushed(Top)), pGt + 1, Pop(stack))

\* a faulty CDATA step: the section is entity-decoded like text
ContentCdataDecoded ==
    /\ UNCHANGED <<decodeVars, headingOffset, headingVars, renderVars, runVars, configVars>>
    /\ pc = "content"
    /\ ~eof
    /\ ~startsWith("</")
    /\ startsWith("<![CDATA[")
    /\ LET f == find(data, "]]>", pos + 9)
           cdata == substr(data, pos + 9, f - (pos + 9))
       IN  IF f = NPOS
           THEN Throw("Unexpected end of XML while searching for marker", pos + 9)
           ELSE /\ stack' = SetTop(stack,
                       [Flushed(Top) EXCEPT !.children =
                            Append(@, TextNode(decodeEntities(cdata)))])
                /\ pos' = f + 3
                /\ UNCHANGED <<data, pc, root, error>>

\* content loop, "<![CDATA[": flush, then the section as a text child of its own
ContentCdata ==
    /\ UNCHANGED <<decodeVars, headingOffset, headingVars, renderVars, runVars, configVars>>
    /\ pc = "content"
    /\ ~eof
    /\ ~startsWith("</")
    /\ startsWith("<![CDATA[")
    /\ LET f == find(data, "]]>", pos + 9)
           cdata == substr(data, pos + 9, f - (pos + 9))
       IN  IF f = NPOS
           THEN Throw("Unexpected end of XML while searching for marker", pos + 9)
           ELSE /\ stack' = SetTop(stack,
                       [Flushed(Top) EXCEPT !.children = Append(@, TextNode(cdata))])
                /\ pos' = f + 3
                /\ UNCHANGED <<data, pc, root, error>>

\* content loop, "<!--": the comment is skipped
\* a faulty comment branch: the end of the comment is searched from the start
\* of the input
ContentCommentRescan ==
    /\ UNCHANGED <<decodeVars, headingOffset, headingVars, renderVars, runVars, configVars>>
    /\ pc = "content"
    /\ ~eof
    /\ ~startsWith("</")
    /\ ~startsWith("<![CDATA[")
    /\ startsWith("<!--")
    /\ LET f == find(data, "-->", 0)
       IN  IF f = NPOS
           THEN Throw("Unexpected end of XML while searching for marker", pos + 4)
           ELSE /\ pos' = f + 3
                /\ UNCHANGED <<data, pc, stack, root, error>>

ContentComment ==
    /\ UNCHANGED <<decodeVars, headingOffset, headingVars, renderVars, runVars, configVars>>
    /\ pc = "content"
    /\ ~eof
    /\ ~startsWith("</")
    /\ ~startsWith("<![CDATA[")
    /\ startsWith("<!--")
    /\ LET f == find(data, "-->", pos + 4)
       IN  IF f = NPOS
           THEN Throw("Unexpected end of XML while searching for marker", pos + 4)
           ELSE /\ pos' = f + 3
                /\ UNCHANGED <<data, pc, stack, root, error>>

\* content loop, any other '<': flush, then the call of parseNode for the child
ContentChild ==
    /\ UNCHANGED <<decodeVars, headingOffset, headingVars, renderVars, runVars, configVars>>
    /\ pc = "content"
    /\ ~eof
    /\ ~startsWith("</")
    /\ ~startsWith("<![CDATA[")
    /\ ~startsWith("<!--")
    /\ startsWith("<")
    /\ stack' = SetTop(stack, Flushed(Top))
    /\ pc' = "node"
    /\ UNCHANGED <<data, pos, root, error>>

\* content loop, a character of text
ContentChar ==
    /\ UNCHANGED <<decodeVars, headingOffset, headingVars, renderVars, runVars, configVars>>
    /\ pc = "content"
    /\ ~eof
    /\ ~startsWith("<")
    /\ stack' = SetTop(stack, [Top EXCEPT !.textBuffer = @ \o charAt(data, pos)])
    /\ pos' = pos + 1
    /\ UNCHANGED <<data, pc, root, error>>

\* content loop left because eof(): the flush and the return
ContentEof ==
    /\ UNCHANGED <<decodeVars, headingOffset, headingVars, renderVars, runVars, configVars>>
    /\ pc = "content"
    /\ eof
    /\ Return(NodeOf(Flushed(Top)), pos, Pop(stack))

----------------------------------------------------------------------------
(* XmlNode lookups *)

None == [none |-> TRUE]

\* XmlNode::attr: the first attribute named key, None for nullptr
attr(node, key) ==
    LET hits == SelectSeq(node.attributes, LAMBDA a : a.name = key)
    IN  IF hits = <<>> THEN None ELSE hits[1]

\* XmlNode::childrenNamed
childrenNamed(node, key) == SelectSeq(node.children, LAMBDA c : c.name = key)

\* XmlNode::child: the first child named key, None for nullptr
child(node, key) ==
    LET hits == childrenNamed(node, key)
    IN  IF hits = <<>> THEN None ELSE hits[1]

----------------------------------------------------------------------------
(* Converter: heading *)

INT_MAX == 2147483647
INT_MIN == -INT_MAX - 1

\* whether the int addition a + b leaves the range of int
addOverflows(a, b) ==
    \/ b > 0 /\ a > INT_MAX - b
    \/ b < 0 /\ a < INT_MIN - b

\* a + b modulo 2^32, for an addition that overflows
wrapAdd(a, b) ==
    IF b > 0 THEN ((a - INT_MAX) - 1) + ((b - INT_MAX) - 1)
    ELSE ((a + INT_MAX) + 1) + ((b + INT_MAX) + 1)

clamp16(l) == IF l < 1 THEN 1 ELSE IF l > 6 THEN 6 ELSE l

\* the values of l that heading(level, offset) may end with. A signed overflow
\* of level + offset is undefined: the build either wraps the sum, or clamps
\* it having assumed that the sum did not overflow.
headingLevels(level, offset) ==
    IF addOverflows(level, offset)
    THEN {clamp16(wrapAdd(level, offset)), IF offset > 0 THEN 6 ELSE 1}
    ELSE {clamp16(level + offset)}

\* std::string(n, '#')
RECURSIVE Hashes(_)
Hashes(n) == IF n <= 0 THEN "" ELSE "#" \o Hashes(n - 1)

\* heading(level, offset) where level + offset does not overflow
heading(level, offset) == Hashes(CHOOSE l \in headingLevels(level, offset) : TRUE)

----------------------------------------------------------------------------
(* Converter: rendering, as functions of the node and config_.headingOffset *)

\* the backtick of the output (a TLA+ string cannot hold one: "~", which no
\* document here holds, stands for it)
BACKTICK == "~"

\* the concatenation of f over the elements of a sequence, in order
ConcatMap(f(_), seq) ==
    LET acc[i \in 0..Len(seq)] == IF i = 0 THEN "" ELSE acc[i - 1] \o f(seq[i])
    IN  acc[Len(seq)]

RECURSIVE nodeText(_)
nodeText(node) ==
    IF node.name = "#text" THEN node.text
    ELSE ConcatMap(nodeText, node.children)

RECURSIVE renderNodeInline(_), wrapUnknown(_), renderPara(_), renderList(_, _),
          renderTable(_), renderCode(_)

\* a faulty fallback: over the text of the children, not their rendering
wrapUnknownFlat(node) ==
    "<div class=\"doxygen-" \o node.name \o "\">"
        \o ConcatMap(nodeText, node.children) \o "</div>"

wrapUnknown(node) ==
    "<div class=\"doxygen-" \o node.name \o "\">"
        \o ConcatMap(renderNodeInline, node.children) \o "</div>"

renderPara(node) == ConcatMap(renderNodeInline, node.children)

\* the cells of a row: one per entry child
rowCells(row) ==
    LET entries == SelectSeq(row.children, LAMBDA e : e.name = "entry")
    IN  [i \in 1..Len(entries) |-> ConcatMap(renderNodeInline, entries[i].children)]

\* a faulty renderTable: a row without a cell is kept
renderTableKeepsEmptyRows(node) ==
    LET rowNodes == SelectSeq(node.children, LAMBDA r : r.name = "row")
        rows == [i \in 1..Len(rowNodes) |-> rowCells(rowNodes[i])]
        line[r \in 1..Len(rows)] ==
            "<tr>"
            \o ConcatMap(LAMBDA cell : IF r = 1 THEN "<th>" \o cell \o "</th>"
                                       ELSE "<td>" \o cell \o "</td>", rows[r])
            \o "</tr>\n"
        body[r \in 0..Len(rows)] == IF r = 0 THEN "" ELSE body[r - 1] \o line[r]
    IN  IF rows = <<>> THEN ""
        ELSE "<table class=\"doxygen-table\">\n" \o body[Len(rows)] \o "</table>\n"

renderTable(node) ==
    LET rowNodes == SelectSeq(node.children, LAMBDA r : r.name = "row")
        allCells == [i \in 1..Len(rowNodes) |-> rowCells(rowNodes[i])]
        rows == SelectSeq(allCells, LAMBDA cells : cells # <<>>)
        line[r \in 1..Len(rows)] ==
            "<tr>"
            \o ConcatMap(LAMBDA cell : IF r = 1 THEN "<th>" \o cell \o "</th>"
                                       ELSE "<td>" \o cell \o "</td>", rows[r])
            \o "</tr>\n"
        body[r \in 0..Len(rows)] == IF r = 0 THEN "" ELSE body[r - 1] \o line[r]
    IN  IF rows = <<>> THEN ""
        ELSE "<table class=\"doxygen-table\">\n" \o body[Len(rows)] \o "</table>\n"

renderList(node, bullet) ==
    ConcatMap(LAMBDA item :
                  IF item.name # "listitem" THEN ""
                  ELSE bullet \o " "
                       \o ConcatMap(LAMBDA c : IF c.name = "para" THEN renderPara(c)
                                               ELSE renderNodeInline(c), item.children)
                       \o "\n",
              node.children)

renderCode(node) ==
    BACKTICK \o BACKTICK \o BACKTICK \o "cpp\n"
    \o ConcatMap(LAMBDA cl :
                     IF cl.name # "codeline" THEN ""
                     ELSE ConcatMap(renderNodeInline, cl.children) \o "\n",
                 node.children)
    \o BACKTICK \o BACKTICK \o BACKTICK \o "\n"

renderNodeInline(node) ==
    IF node.name = "#text" THEN node.text
    ELSE IF node.name = "bold" THEN "**" \o nodeText(node) \o "**"
    ELSE IF node.name = "emphasis" THEN "*" \o nodeText(node) \o "*"
    ELSE IF node.name = "computeroutput" THEN BACKTICK \o nodeText(node) \o BACKTICK
    ELSE IF node.name = "ref" THEN
        LET label == nodeText(node)
            id == attr(node, "refid")
            anchor == IF id # None THEN id.value ELSE label
        IN  "[" \o label \o "](#" \o anchor \o ")"
    ELSE IF node.name = "itemizedlist" THEN "\n" \o renderList(node, "-") \o "\n"
    ELSE IF node.name = "orderedlist" THEN "\n" \o renderList(node, "1.") \o "\n"
    ELSE IF node.name = "table" THEN "\n" \o renderTable(node) \o "\n"
    ELSE IF node.name = "programlisting" THEN "\n" \o renderCode(node) \o "\n"
    ELSE IF node.name = "para" THEN renderPara(node)
    ELSE wrapUnknown(node)

\* a faulty renderDescription: the other children by the inline dispatch
renderDescriptionInline(desc) ==
    ConcatMap(LAMBDA c :
                  IF c.name = "para" THEN renderPara(c) \o "\n\n"
                  ELSE IF c.name = "#text" THEN
                      (IF c.text # "" THEN c.text \o "\n\n" ELSE "")
                  ELSE renderNodeInline(c) \o "\n\n",
              desc.children)

renderDescription(desc) ==
    ConcatMap(LAMBDA c :
                  IF c.name = "para" THEN renderPara(c) \o "\n\n"
                  ELSE IF c.name = "#text" THEN
                      (IF c.text # "" THEN c.text \o "\n\n" ELSE "")
                  ELSE wrapUnknown(c) \o "\n\n",
              desc.children)

\* the brief and the detailed description of a compound or member, when present
descriptions(node) ==
    LET brief == child(node, "briefdescription")
        detail == child(node, "detaileddescription")
    IN  (IF brief # None THEN renderDescription(brief) ELSE "")
        \o (IF detail # None THEN renderDescription(detail) ELSE "")

\* a faulty renderMember: the signature leaves out the argsstring
renderMemberNoArgs(member, level, offset) ==
    LET name == IF child(member, "name") # None
                THEN nodeText(child(member, "name")) ELSE "member"
        def == IF child(member, "definition") # None
               THEN nodeText(child(member, "definition")) ELSE ""
        signature == IF def = "" THEN name ELSE def
    IN  heading(level, offset) \o " " \o signature \o "\n\n" \o descriptions(member)

renderMember(member, level, offset) ==
    LET name == IF child(member, "name") # None
                THEN nodeText(child(member, "name")) ELSE "member"
        def == IF child(member, "definition") # None
               THEN nodeText(child(member, "definition")) ELSE ""
        args == IF child(member, "argsstring") # None
                THEN nodeText(child(member, "argsstring")) ELSE ""
        signature == IF def = "" THEN name ELSE def \o args
    IN  heading(level, offset) \o " " \o signature \o "\n\n" \o descriptions(member)

renderSection(section, offset) ==
    LET stitle == IF attr(section, "kind") # None
                  THEN attr(section, "kind").value ELSE "Members"
    IN  "\n" \o heading(2, offset) \o " " \o stitle \o "\n\n"
        \o ConcatMap(LAMBDA m : IF m.name = "memberdef" THEN renderMember(m, 3, offset)
                                ELSE "", section.children)

\* a faulty renderCompound: the descriptions and the sections at their place
\* in the document
renderCompoundDocumentOrder(compound, offset) ==
    LET name == IF child(compound, "compoundname") # None
                THEN nodeText(child(compound, "compoundname")) ELSE "Unknown"
        kind == IF attr(compound, "kind") # None
                THEN attr(compound, "kind").value ELSE "compound"
    IN  heading(1, offset) \o " " \o name \o " (" \o kind \o ")\n\n"
        \o ConcatMap(LAMBDA c :
                         IF c.name \in {"briefdescription", "detaileddescription"}
                         THEN renderDescription(c)
                         ELSE IF c.name = "sectiondef" THEN renderSection(c, offset)
                         ELSE "",
                     compound.children)

renderCompound(compound, offset) ==
    LET name == IF child(compound, "compoundname") # None
                THEN nodeText(child(compound, "compoundname")) ELSE "Unknown"
        kind == IF attr(compound, "kind") # None
                THEN attr(compound, "kind").value ELSE "compound"
    IN  heading(1, offset) \o " " \o name \o " (" \o kind \o ")\n\n"
        \o descriptions(compound)
        \o ConcatMap(LAMBDA s : renderSection(s, offset),
                     childrenNamed(compound, "sectiondef"))

\* a faulty renderDocument: every child of the doxygen root taken for a compound
renderDocumentAllKids(r, offset) ==
    IF r.name = "doxygen"
    THEN ConcatMap(LAMBDA comp : renderCompound(comp, offset) \o "\n", r.children)
    ELSE IF r.name = "compounddef" THEN renderCompound(r, offset)
    ELSE wrapUnknown(r)

renderDocument(r, offset) ==
    IF r.name = "doxygen"
    THEN ConcatMap(LAMBDA comp : renderCompound(comp, offset) \o "\n",
                   childrenNamed(r, "compounddef"))
    ELSE IF r.name = "compounddef" THEN renderCompound(r, offset)
    ELSE wrapUnknown(r)

----------------------------------------------------------------------------
(* The documents the parser is run on *)

MaxBody == 3
MaxAttr == 2
MaxPre == 2

\* every concatenation of at most n of the pieces
RECURSIVE Concats(_, _)
Concats(pieces, n) ==
    IF n = 0 THEN {""}
    ELSE LET S == Concats(pieces, n - 1)
         IN  S \cup {s \o t : s \in S, t \in pieces}

BodyPieces ==
    {"x", "&l", "t;", "<b>", "</b>", "<!--c-->", "<!--", "<![CDATA[&lt;]]>", "<![CDATA["}

BodyEnds == {"</a>", "</a >", "</a", ""}

\* an element a around content: text, entities, children, comments, CDATA
BodyInputs == {"<a>" \o b \o e : b \in Concats(BodyPieces, MaxBody), e \in BodyEnds}

AttrPieces ==
    {" k=\"v\"", " j = '&lt;'", " k", " k=", " k=v", " k=\"v", " "}

AttrEnds == {">", "/>", "", "></b>"}

\* an opening tag with attributes, at the top level and inside an element
AttrInputs ==
    {w[1] \o "<b" \o s \o e \o w[2] :
        w \in {<<"", "">>, <<"<a>", "</a>">>},
        s \in Concats(AttrPieces, MaxAttr), e \in AttrEnds}

PrePieces ==
    {"<?xml?>", "<?xml", "<!DOCTYPE a>", "<!DOCTYPE a", " ", "<!--c-->", "<!--",
     "<![CDATA[x]]>", "<![CDATA[", "x"}

\* what may stand before the root element
PreInputs == {s \o e : s \in Concats(PrePieces, MaxPre), e \in {"<a>x</a>", ""}}

Inputs == BodyInputs \cup AttrInputs \cup PreInputs

----------------------------------------------------------------------------
(* The other components at rest *)

ParserIdle ==
    /\ data = "" /\ pos = 0 /\ pc = "idle" /\ stack = <<>> /\ root = NoTree /\ error = ""

DecodeIdle == inText = "" /\ decoded = "" /\ dpc = "idle"

HeadingIdle == hLevel = 0 /\ hMarker = ""

RenderIdle ==
    tree = NoTree /\ op = "" /\ subject = NoTree /\ rendered = "" /\ docOut = <<>>

RunIdle ==
    /\ files = <<>> /\ emitIndex = TRUE /\ remaining = {} /\ written = {}
    /\ generated = <<>> /\ indexWritten = FALSE /\ runpc = "idle"

ConfigIdle ==
    /\ argv = <<>> /\ configFile = <<>> /\ argi = 0 /\ cfg = [none |-> TRUE]
    /\ cpc = "idle"

----------------------------------------------------------------------------
(* XmlParser parser(text); parser.parse() *)

Init ==
    /\ data \in Inputs
    /\ pos = 0
    /\ pc = "parse"
    /\ stack = <<>>
    /\ root = NoTree
    /\ error = ""
    /\ DecodeIdle /\ headingOffset = 0 /\ HeadingIdle /\ RenderIdle /\ RunIdle /\ ConfigIdle

Next ==
    \/ Parse
    \/ NodeHead
    \/ AttrStep
    \/ AttrEnd
    \/ ContentClose
    \/ ContentCdata
    \/ ContentComment
    \/ ContentChild
    \/ ContentChar
    \/ ContentEof

Spec == Init /\ [][Next]_vars

\* parse() runs on: a step that can be taken is taken
SpecLive == Spec /\ WF_vars(Next)

----------------------------------------------------------------------------
(* decodeEntities on its own: the texts and the call *)

MaxEnt == 4

EntityPieces == {"&", "lt;", "gt;", "amp;", "quot;", "apos;", "x", ";"}

DecodeTexts ==
    Concats(EntityPieces, MaxEnt) \cup {"a &lt;b&gt; &amp; c", "&amp;lt;", "&foo; &"}

InitDecode ==
    /\ inText \in DecodeTexts
    /\ decoded = ""
    /\ dpc = "in"
    /\ ParserIdle /\ headingOffset = 0 /\ HeadingIdle /\ RenderIdle /\ RunIdle /\ ConfigIdle

Decode ==
    /\ dpc = "in"
    /\ decoded' = decodeEntities(inText)
    /\ dpc' = "out"
    /\ UNCHANGED <<inText, parserVars, headingOffset, headingVars, renderVars, runVars, configVars>>

NextDecode == Decode

SpecDecode == InitDecode /\ [][NextDecode]_vars

----------------------------------------------------------------------------
(* heading(level, config_.headingOffset): the offsets std::stoi can give *)

Near == 8

NominalLevels == {1, 2, 3}

HeadingOffsets ==
    {INT_MIN + k : k \in 0..Near} \cup (-(Near + 6) .. Near + 6)
        \cup {INT_MAX - k : k \in 0..Near}

InitHeading ==
    /\ headingOffset \in HeadingOffsets
    /\ HeadingIdle
    /\ ParserIdle /\ DecodeIdle /\ RenderIdle /\ RunIdle /\ ConfigIdle

Heading ==
    /\ hLevel = 0
    /\ \E lv \in NominalLevels :
        \E l \in headingLevels(lv, headingOffset) :
            /\ hLevel' = lv
            /\ hMarker' = Hashes(l)
    /\ UNCHANGED <<headingOffset, parserVars, decodeVars, renderVars, runVars, configVars>>

NextHeading == Heading

SpecHeading == InitHeading /\ [][NextHeading]_vars

----------------------------------------------------------------------------
(* Converter::run over the entries of inputXmlDir *)

MaxDocs == 3

Docs == 1..MaxDocs

\* what happens to an entry: skipped (not a regular .xml file), converted,
\* or convertFile throws: the parser rejects the document, or the output file
\* cannot be opened
Fates == {"skipped", "ok", "malformed", "unwritable"}

InitRun ==
    /\ files \in [Docs -> Fates]
    /\ emitIndex \in BOOLEAN
    /\ remaining = Docs
    /\ written = {}
    /\ generated = <<>>
    /\ indexWritten = FALSE
    /\ runpc = "start"
    /\ ParserIdle /\ DecodeIdle /\ headingOffset = 0 /\ HeadingIdle /\ RenderIdle
    /\ ConfigIdle

\* ensureOutputDir(), and the directory iterator opened
RunStart ==
    /\ runpc = "start"
    /\ runpc' = "loop"
    /\ UNCHANGED <<files, emitIndex, remaining, written, generated, indexWritten>>
    /\ UNCHANGED <<parserVars, decodeVars, headingOffset, headingVars, renderVars,
                 configVars>>

\* convertFile(path): whether it returns, having written the .mdx
convertFile(d) == files[d] = "ok"

\* one iteration of the loop over the directory, on whichever entry comes next
RunEntry ==
    /\ runpc = "loop"
    /\ \E d \in remaining :
        /\ remaining' = remaining \ {d}
        /\ IF files[d] = "skipped"
           THEN UNCHANGED <<written, generated, runpc>>
           ELSE IF convertFile(d)
           THEN /\ written' = written \cup {d}
                /\ generated' = Append(generated, d)
                /\ runpc' = runpc
           ELSE \* the exception leaves run(); main reports it and returns 1
                /\ runpc' = "failed"
                /\ UNCHANGED <<written, generated>>
    /\ UNCHANGED <<files, emitIndex, indexWritten>>
    /\ UNCHANGED <<parserVars, decodeVars, headingOffset, headingVars, renderVars,
                 configVars>>

\* after the loop: index.mdx
RunIndex ==
    /\ runpc = "loop"
    /\ remaining = {}
    /\ indexWritten' = (emitIndex /\ generated # <<>>)
    /\ runpc' = "done"
    /\ UNCHANGED <<files, emitIndex, remaining, written, generated>>
    /\ UNCHANGED <<parserVars, decodeVars, headingOffset, headingVars, renderVars,
                 configVars>>

NextRun == RunStart \/ RunEntry \/ RunIndex

SpecRun == InitRun /\ [][NextRun]_vars

----------------------------------------------------------------------------
(* The trees the renderer is run on: trees the parser can build *)

MaxKids == 2

\* every sequence of at most n elements of S
SeqsUpTo(S, n) == UNION {[1..k -> S] : k \in 0..n}

El(name, attributes, children) == XmlNode(name, "", attributes, children)

Attr(name, value) == [name |-> name, value |-> value]

Hi == TextNode("hi")

ParaHi == El("para", <<>>, <<Hi>>)

ListSample(tag) ==
    El(tag, <<>>, <<El("listitem", <<>>, <<ParaHi>>), Hi,
                    El("listitem", <<>>, <<El("bold", <<>>, <<Hi>>)>>)>>)

TableSample ==
    El("table", <<>>,
       <<El("row", <<>>, <<El("entry", <<>>, <<ParaHi>>), El("entry", <<>>, <<Hi>>)>>),
         El("row", <<>>, <<>>),
         El("row", <<>>, <<El("entry", <<>>, <<El("bold", <<>>, <<Hi>>)>>)>>)>>)

CodeSample ==
    El("programlisting", <<>>,
       <<El("codeline", <<>>, <<El("highlight", <<>>, <<TextNode("int x;")>>)>>),
         El("codeline", <<>>, <<>>)>>)

RefSample == El("ref", <<Attr("refid", "r1")>>, <<Hi>>)

\* elements over text only
Inline1 ==
    {El(t, <<>>, kids) :
        t \in {"bold", "emphasis", "computeroutput", "ref", "para", "xrefsect"},
        kids \in SeqsUpTo({Hi}, MaxKids)}
    \cup {RefSample, ListSample("itemizedlist"), ListSample("orderedlist"),
          TableSample, CodeSample}

Mixed ==
    {Hi, El("bold", <<>>, <<Hi>>), RefSample, El("xrefsect", <<>>, <<Hi>>), ParaHi,
     El("simplesect", <<Attr("kind", "note")>>, <<ParaHi>>), TableSample}

\* elements over elements
Inline2 ==
    {El(t, <<>>, kids) :
        t \in {"xrefsect", "simplesect", "para", "bold", ""},
        kids \in SeqsUpTo(Mixed, MaxKids)}

DescSample(tag) == El(tag, <<>>, <<ParaHi, TextNode("plain"), El("xrefsect", <<>>, <<Hi>>)>>)

\* memberdef: with and without name, definition (with text, without, with an
\* empty CDATA section), argsstring and description
Members ==
    {El("memberdef", <<>>, n \o d \o a \o b) :
        n \in {<<>>, <<El("name", <<>>, <<TextNode("f")>>)>>},
        d \in {<<>>, <<El("definition", <<>>, <<TextNode("int f")>>)>>,
               <<El("definition", <<>>, <<>>)>>,
               <<El("definition", <<>>, <<TextNode("")>>)>>},
        a \in {<<>>, <<El("argsstring", <<>>, <<TextNode("(int)")>>)>>},
        b \in {<<>>, <<DescSample("briefdescription")>>}}

CompoundOf(m) ==
    El("compounddef", <<Attr("kind", "file")>>,
       <<El("compoundname", <<>>, <<TextNode("n")>>),
         El("sectiondef", <<Attr("kind", "func")>>, <<m>>)>>)

FullMember ==
    El("memberdef", <<>>,
       <<El("name", <<>>, <<TextNode("f")>>),
         El("definition", <<>>, <<TextNode("int f")>>),
         El("argsstring", <<>>, <<TextNode("(int)")>>)>>)

BareCompound == El("compounddef", <<>>, <<>>)

\* the children out of the order of the output, a section without kind
ShuffledCompound ==
    El("compounddef", <<>>,
       <<El("sectiondef", <<>>, <<FullMember, Hi, FullMember>>),
         DescSample("detaileddescription"),
         El("compoundname", <<>>, <<TextNode("n")>>),
         DescSample("briefdescription")>>)

\* the detailed description before the brief one, between two sections, the
\* name last
ReversedCompound ==
    El("compounddef", <<Attr("kind", "class")>>,
       <<El("sectiondef", <<Attr("kind", "func")>>, <<FullMember>>),
         El("detaileddescription", <<>>, <<TextNode("plain")>>),
         El("briefdescription", <<>>, <<ParaHi>>),
         El("sectiondef", <<>>, <<Hi, El("memberdef", <<>>, <<>>)>>),
         El("compoundname", <<>>, <<TextNode("n")>>)>>)

Compounds ==
    {CompoundOf(m) : m \in Members}
        \cup {BareCompound, ShuffledCompound, ReversedCompound}

\* rows: two cells, no cell, one cell, a child that is not an entry
RowSamples ==
    {El("row", <<>>, <<El("entry", <<>>, <<ParaHi>>), El("entry", <<>>, <<Hi>>)>>),
     El("row", <<>>, <<>>),
     El("row", <<>>, <<El("entry", <<>>, <<El("bold", <<>>, <<Hi>>)>>)>>),
     El("row", <<>>, <<Hi>>)}

\* the first row without a cell, then two rows with cells
TableEmptyFirst ==
    El("table", <<>>,
       <<El("row", <<>>, <<>>),
         El("row", <<>>, <<El("entry", <<>>, <<Hi>>)>>),
         El("row", <<>>, <<El("entry", <<>>, <<TextNode("x")>>)>>)>>)

Tables ==
    {El("table", <<>>, kids) : kids \in SeqsUpTo(RowSamples \cup {Hi}, MaxKids)}
    \cup {TableEmptyFirst}

\* items: one paragraph, two, no paragraph, nothing, the paragraph followed
\* by the line break the document has before </listitem>, a list in the item
ItemSamples ==
    {El("listitem", <<>>, <<ParaHi>>),
     El("listitem", <<>>, <<ParaHi, El("para", <<>>, <<TextNode("x")>>)>>),
     El("listitem", <<>>, <<El("bold", <<>>, <<Hi>>)>>),
     El("listitem", <<>>, <<>>),
     El("listitem", <<>>, <<ParaHi, TextNode("\n")>>),
     El("listitem", <<>>,
        <<ParaHi, El("itemizedlist", <<>>,
                     <<El("listitem", <<>>, <<El("para", <<>>, <<TextNode("x")>>)>>)>>)>>)}

Lists ==
    {El(t, <<>>, kids) : t \in {"itemizedlist", "orderedlist"},
                         kids \in SeqsUpTo(ItemSamples \cup {Hi, ParaHi}, MaxKids)}

\* children of a description: paragraph, text, empty text, a tag the inline
\* rendering maps, a tag it does not
DescKids ==
    {ParaHi, TextNode("plain"), TextNode(""), El("bold", <<>>, <<Hi>>),
     El("xrefsect", <<>>, <<Hi>>)}

Descriptions ==
    {El(t, <<>>, kids) : t \in {"briefdescription", "detaileddescription"},
                         kids \in SeqsUpTo(DescKids, MaxKids)}

DocKids ==
    {BareCompound, CompoundOf(FullMember), El("other", <<>>, <<Hi>>), TextNode("t")}

DoxygenRoots == {El("doxygen", <<>>, kids) : kids \in SeqsUpTo(DocKids, MaxKids)}

Trees ==
    DoxygenRoots \cup Compounds \cup Inline1 \cup Inline2 \cup {Hi}
        \cup Tables \cup Lists \cup Descriptions

RenderOffsets == {-1, 0, 4}

\* the node and those below it
RECURSIVE Nodes(_)
Nodes(node) ==
    {node} \cup UNION {Nodes(node.children[i]) : i \in 1..Len(node.children)}

----------------------------------------------------------------------------
(* Converter: a tree, and calls of the render methods on it and its nodes *)

\* how many renderDocument calls are followed
MaxRenders == 2

InitRender ==
    /\ tree \in Trees
    /\ headingOffset \in RenderOffsets
    /\ op = ""
    /\ subject = NoTree
    /\ rendered = ""
    /\ docOut = <<>>
    /\ ParserIdle /\ DecodeIdle /\ HeadingIdle /\ RunIdle /\ ConfigIdle

Called(name, node, result) ==
    /\ op' = name
    /\ subject' = node
    /\ rendered' = result
    /\ UNCHANGED <<tree, headingOffset, parserVars, decodeVars, headingVars, runVars, configVars>>

\* a faulty renderDocument call: the stream keeps what the call before wrote
RenderDocumentKeepsStream ==
    /\ Len(docOut) < MaxRenders
    /\ Called("renderDocument", tree,
              (IF op = "renderDocument" THEN rendered ELSE "")
                  \o renderDocument(tree, headingOffset))
    /\ docOut' = Append(docOut, rendered')

RenderDocument ==
    /\ Len(docOut) < MaxRenders
    /\ Called("renderDocument", tree, renderDocument(tree, headingOffset))
    /\ docOut' = Append(docOut, rendered')

RenderCompound ==
    \E c \in Nodes(tree) :
        /\ c.name = "compounddef"
        /\ Called("renderCompound", c, renderCompound(c, headingOffset))
        /\ UNCHANGED docOut

RenderMember ==
    \E m \in Nodes(tree) :
        /\ m.name = "memberdef"
        /\ Called("renderMember", m, renderMember(m, 3, headingOffset))
        /\ UNCHANGED docOut

RenderDescription ==
    \E d \in Nodes(tree) :
        /\ d.name \in {"briefdescription", "detaileddescription"}
        /\ Called("renderDescription", d, renderDescription(d))
        /\ UNCHANGED docOut

RenderNodeInline ==
    \E n \in Nodes(tree) :
        /\ Called("renderNodeInline", n, renderNodeInline(n))
        /\ UNCHANGED docOut

NextRender ==
    \/ RenderDocument
    \/ RenderCompound
    \/ RenderMember
    \/ RenderDescription
    \/ RenderNodeInline

SpecRender == InitRender /\ [][NextRender]_vars

----------------------------------------------------------------------------
(* Config: parseYamlLike, parseConfig, std::stoi *)

\* std::getline over the content: the lines, without their newline
RECURSIVE getlines(_)
getlines(content) ==
    IF content = "" THEN <<>>
    ELSE LET nl == find(content, "\n", 0)
         IN  IF nl = NPOS THEN <<content>>
             ELSE <<substr(content, 0, nl)>>
                      \o getlines(substr(content, nl + 1, Len(content)))

RECURSIVE ltrim(_)
ltrim(s) == IF s # "" /\ charAt(s, 0) \in Spaces THEN ltrim(substr(s, 1, Len(s))) ELSE s

RECURSIVE rtrim(_)
rtrim(s) ==
    IF s # "" /\ charAt(s, Len(s) - 1) \in Spaces THEN rtrim(substr(s, 0, Len(s) - 1))
    ELSE s

\* the empty std::unordered_map
EmptyKv == [k \in {} |-> ""]

\* kv[key] = value
kvSet(kv, key, value) ==
    [k \in DOMAIN kv \cup {key} |-> IF k = key THEN value ELSE kv[k]]

\* the body of the loop of parseYamlLike on one line
yamlLine(kv, line0) ==
    LET hash == find(line0, "#", 0)
        line == IF hash # NPOS THEN substr(line0, 0, hash) ELSE line0
        colon == find(line, ":", 0)
        key == rtrim(ltrim(substr(line, 0, colon)))
        value == rtrim(ltrim(substr(line, colon + 1, Len(line))))
    IN  IF colon = NPOS THEN kv
        ELSE IF key # "" THEN kvSet(kv, key, value)
        ELSE kv

parseYamlLike(content) ==
    LET lines == getlines(content)
        kv[i \in 0..Len(lines)] == IF i = 0 THEN EmptyKv ELSE yamlLine(kv[i - 1], lines[i])
    IN  kv[Len(lines)]

DigitChars == <<"0", "1", "2", "3", "4", "5", "6", "7", "8", "9">>

DigitOf(c) == (CHOOSE i \in 1..10 : DigitChars[i] = c) - 1

isDigit(c) == \E i \in 1..10 : DigitChars[i] = c

\* std::stoi: leading whitespace, a sign, digits; what follows the digits is
\* ignored. ok is FALSE when it throws (no digit: invalid_argument; a value
\* no int holds: out_of_range)
RECURSIVE stoiDigits(_, _, _, _)
stoiDigits(s, i, acc, neg) ==
    IF i < Len(s) /\ isDigit(charAt(s, i))
    THEN LET d == DigitOf(charAt(s, i))
             limit == IF neg THEN 8 ELSE 7
         IN  IF acc > 214748364 \/ (acc = 214748364 /\ d > limit)
             THEN [ok |-> FALSE, value |-> 0]
             ELSE stoiDigits(s, i + 1, acc * 10 + d, neg)
    ELSE [ok |-> TRUE, value |-> IF neg THEN -acc ELSE acc]

stoi(str) ==
    LET s == ltrim(str)
        signed == s # "" /\ charAt(s, 0) \in {"+", "-"}
        neg == signed /\ charAt(s, 0) = "-"
        start == IF signed THEN 1 ELSE 0
    IN  IF start < Len(s) /\ isDigit(charAt(s, start))
        THEN stoiDigits(s, start, 0, neg)
        ELSE [ok |-> FALSE, value |-> 0]

\* Config as parseConfig first fills it
Defaults ==
    [inputXmlDir |-> "docs/build/xml", outputMdxDir |-> "docs/mdx",
     cssOutputPath |-> "docs/doxygen.css", projectName |-> "Project",
     headingOffset |-> 0, emitIndex |-> TRUE]

\* whether parseConfig(kv) throws (std::stoi on the heading_offset value)
parseConfigThrows(kv) ==
    "heading_offset" \in DOMAIN kv /\ ~stoi(kv["heading_offset"]).ok

parseConfig(kv) ==
    LET has(key) == key \in DOMAIN kv
    IN  [inputXmlDir |-> IF has("input") THEN kv["input"] ELSE Defaults.inputXmlDir,
         outputMdxDir |-> IF has("output") THEN kv["output"] ELSE Defaults.outputMdxDir,
         cssOutputPath |-> IF has("css") THEN kv["css"] ELSE Defaults.cssOutputPath,
         projectName |-> IF has("project") THEN kv["project"] ELSE Defaults.projectName,
         headingOffset |-> IF has("heading_offset") THEN stoi(kv["heading_offset"]).value
                           ELSE Defaults.headingOffset,
         emitIndex |-> IF has("emit_index") THEN kv["emit_index"] # "false"
                       ELSE Defaults.emitIndex]

----------------------------------------------------------------------------
(* applyCliArgs(argc, argv): one step for each iteration of its loop *)

\* argc: argv[0] is the program
argc == Len(argv) + 1

\* the one file that can be read: loadFile throws for every other path
ConfigPath == "c.yaml"

\* the flags that take a value, and the field each sets
ValueFlags ==
    {"--input", "-i", "--output", "-o", "--css", "--project", "--heading-offset"}

\* cfg after the flag is given the value
setField(c, flag, value) ==
    IF flag \in {"--input", "-i"} THEN [c EXCEPT !.inputXmlDir = value]
    ELSE IF flag \in {"--output", "-o"} THEN [c EXCEPT !.outputMdxDir = value]
    ELSE IF flag = "--css" THEN [c EXCEPT !.cssOutputPath = value]
    ELSE IF flag = "--project" THEN [c EXCEPT !.projectName = value]
    ELSE [c EXCEPT !.headingOffset = stoi(value).value]

\* the exception leaves applyCliArgs: no configuration
ArgThrow ==
    /\ cpc' = "error"
    /\ cfg' = [none |-> TRUE]
    /\ UNCHANGED <<argv, configFile, argi>>

inArgLoop == cpc = "args" /\ argi < argc

\* requireValue(flag) throws
valueMissing == argi + 1 >= argc

ArgHelp ==
    /\ inArgLoop
    /\ argv[argi] \in {"--help", "-h"}
    /\ cpc' = "exit"
    /\ UNCHANGED <<argv, configFile, argi, cfg>>
    /\ UNCHANGED <<parserVars, decodeVars, headingOffset, headingVars, renderVars, runVars>>

\* a faulty --config: the file's keys are laid over the configuration so far
ArgConfigMerging ==
    /\ inArgLoop
    /\ argv[argi] = "--config"
    /\ IF valueMissing \/ argv[argi + 1] # ConfigPath
          \/ parseConfigThrows(parseYamlLike(configFile))
       THEN ArgThrow
       ELSE LET kv == parseYamlLike(configFile)
                file == parseConfig(kv)
            IN  /\ cfg' = [inputXmlDir |-> IF "input" \in DOMAIN kv
                                           THEN file.inputXmlDir ELSE cfg.inputXmlDir,
                           outputMdxDir |-> IF "output" \in DOMAIN kv
                                            THEN file.outputMdxDir ELSE cfg.outputMdxDir,
                           cssOutputPath |-> IF "css" \in DOMAIN kv
                                             THEN file.cssOutputPath ELSE cfg.cssOutputPath,
                           projectName |-> IF "project" \in DOMAIN kv
                                           THEN file.projectName ELSE cfg.projectName,
                           headingOffset |-> IF "heading_offset" \in DOMAIN kv
                                             THEN file.headingOffset ELSE cfg.headingOffset,
                           emitIndex |-> IF "emit_index" \in DOMAIN kv
                                         THEN file.emitIndex ELSE cfg.emitIndex]
                /\ argi' = argi + 2
                /\ UNCHANGED <<argv, configFile, cpc>>
    /\ UNCHANGED <<parserVars, decodeVars, headingOffset, headingVars, renderVars, runVars>>

ArgConfig ==
    /\ inArgLoop
    /\ argv[argi] = "--config"
    /\ IF valueMissing \/ argv[argi + 1] # ConfigPath
          \/ parseConfigThrows(parseYamlLike(configFile))
       THEN ArgThrow
       ELSE /\ cfg' = parseConfig(parseYamlLike(configFile))
            /\ argi' = argi + 2
            /\ UNCHANGED <<argv, configFile, cpc>>
    /\ UNCHANGED <<parserVars, decodeVars, headingOffset, headingVars, renderVars, runVars>>

ArgValue ==
    /\ inArgLoop
    /\ argv[argi] \in ValueFlags
    /\ IF valueMissing
          \/ (argv[argi] = "--heading-offset" /\ ~stoi(argv[argi + 1]).ok)
       THEN ArgThrow
       ELSE /\ cfg' = setField(cfg, argv[argi], argv[argi + 1])
            /\ argi' = argi + 2
            /\ UNCHANGED <<argv, configFile, cpc>>
    /\ UNCHANGED <<parserVars, decodeVars, headingOffset, headingVars, renderVars, runVars>>

ArgNoIndex ==
    /\ inArgLoop
    /\ argv[argi] = "--no-index"
    /\ cfg' = [cfg EXCEPT !.emitIndex = FALSE]
    /\ argi' = argi + 1
    /\ UNCHANGED <<argv, configFile, cpc>>
    /\ UNCHANGED <<parserVars, decodeVars, headingOffset, headingVars, renderVars, runVars>>

ArgUnknown ==
    /\ inArgLoop
    /\ argv[argi] \notin ValueFlags \cup {"--help", "-h", "--config", "--no-index"}
    /\ ArgThrow
    /\ UNCHANGED <<parserVars, decodeVars, headingOffset, headingVars, renderVars, runVars>>

\* the loop is left: return cfg
ArgsDone ==
    /\ cpc = "args"
    /\ argi >= argc
    /\ cpc' = "done"
    /\ UNCHANGED <<argv, configFile, argi, cfg>>
    /\ UNCHANGED <<parserVars, decodeVars, headingOffset, headingVars, renderVars, runVars>>

----------------------------------------------------------------------------
(* The command lines and configuration files applyCliArgs is run on *)

MaxArgs == 4

ArgTokens ==
    {"--config", ConfigPath, "--input", "in2", "--heading-offset", "2", "--no-index"}

\* one use of each of the other flags, and the command lines that throw
OtherArgvs ==
    {<<"-i", "in2">>, <<"--output", "out2">>, <<"-o", "out2">>, <<"--css", "c2">>,
     <<"--project", "P2">>, <<"--help">>, <<"-h", "--no-index">>,
     <<"--heading-offset", "-3x">>, <<"--heading-offset", "x">>,
     <<"--config", "missing.yaml">>,
     <<"--project", "P2", "--config", ConfigPath, "--css", "c2">>}

Argvs == SeqsUpTo(ArgTokens, MaxArgs) \cup OtherArgvs

\* the file of the README
ReadmeFile ==
    "# Doxy2MDX Configuration File\n"
    \o "input_xml_dir: docs/build/xml2\n"
    \o "output_mdx_dir: docs/mdx2\n"
    \o "css_output_path: docs/doxygen2.css\n"
    \o "project_name: \"My C++ Project\"\n"
    \o "heading_offset: 1\n"
    \o "emit_index: false\n"

\* a file with the keys parseConfig looks for
ShortKeysFile ==
    "input: in3\noutput: out3\ncss: c3\nproject: P3 # name\n"
    \o "heading_offset: 1\nemit_index: false\n"

ConfigLines ==
    {"input_xml_dir: in3", "input: in3", " output :  out3  ", "project_name: P3",
     "heading_offset: 1", "heading_offset: x", "emit_index: false", "emit_index: true",
     "# note", "no colon", ": v", "input: in4"}

ConfigFiles ==
    {ReadmeFile, ShortKeysFile, ""}
    \cup {l \o "\n" : l \in ConfigLines}
    \cup {l1 \o "\n" \o l2 : l1 \in ConfigLines, l2 \in ConfigLines}

\* the command lines every file is loaded by
LoadingArgvs ==
    {<<"--config", ConfigPath>>, <<"--input", "in2", "--config", ConfigPath>>,
     <<"--config", ConfigPath, "--no-index">>}

InitConfig ==
    /\ \/ /\ argv \in Argvs
          /\ configFile \in {ShortKeysFile, "emit_index: true\ninput: in3"}
       \/ /\ argv \in LoadingArgvs
          /\ configFile \in ConfigFiles
    /\ argi = 1
    /\ cfg = parseConfig(EmptyKv)
    /\ cpc = "args"
    /\ ParserIdle /\ DecodeIdle /\ headingOffset = 0 /\ HeadingIdle /\ RenderIdle
    /\ RunIdle

NextConfig ==
    \/ ArgHelp
    \/ ArgConfig
    \/ ArgValue
    \/ ArgNoIndex
    \/ ArgUnknown
    \/ ArgsDone

SpecConfig == InitConfig /\ [][NextConfig]_vars

----------------------------------------------------------------------------
(* Claims about the parser, under Spec *)

TopOf(stk) == stk[Len(stk)]

Quotes == {"\"", "'"}

\* the parser stands where the input ends before the delimiter it scans for
UnterminatedProlog ==
    /\ pc = "parse"
    /\ LET p0 == skipWhitespace(data, pos)
       IN  startsWithAt(data, p0, "<?") /\ find(data, "?>", p0) = NPOS

UnterminatedDoctype ==
    /\ pc = "parse"
    /\ ~UnterminatedProlog
    /\ LET p0 == skipWhitespace(data, pos)
           p1 == IF startsWithAt(data, p0, "<?")
                 THEN skipWhitespace(data, find(data, "?>", p0) + 2) ELSE p0
       IN  startsWithAt(data, p1, "<!DOCTYPE") /\ find(data, ">", p1) = NPOS

UnterminatedComment ==
    /\ pc \in {"node", "content"}
    /\ startsWith("<!--")
    /\ find(data, "-->", pos + 4) = NPOS

UnterminatedCdata ==
    /\ pc \in {"node", "content"}
    /\ startsWith("<![CDATA[")
    /\ find(data, "]]>", pos + 9) = NPOS

\* an element is open and the input is at its end: its closing tag never came
OpenElementAtEnd == pc = "content" /\ eof

InputEndsEarly ==
    \/ UnterminatedProlog
    \/ UnterminatedDoctype
    \/ UnterminatedComment
    \/ UnterminatedCdata
    \/ OpenElementAtEnd

\* C1: whenever the input ends before the delimiter the parser is scanning for
\* (the closing tag of an open element, the end of a comment, of a CDATA
\* section, of the prologue or of the doctype), the next step of parse is the
\* error, and no tree is returned.
C1_EndOfInputIsFatal ==
    [][InputEndsEarly => (pc' = "error" /\ root' = NoTree)]_vars

\* the syntactic faults, where the parser meets them
AfterAttrName == skipWhitespace(data, parseNameEnd(data, pos))

AttrQuoteAt == skipWhitespace(data, AfterAttrName + 1)

MissingEquals ==
    pc = "attrs" /\ inAttrLoop /\ peekAt(data, AfterAttrName) # "="

ValueNotQuoted ==
    /\ pc = "attrs" /\ inAttrLoop /\ ~MissingEquals
    /\ peekAt(data, AttrQuoteAt) \notin Quotes

ValueUnterminated ==
    /\ pc = "attrs" /\ inAttrLoop /\ ~MissingEquals
    /\ peekAt(data, AttrQuoteAt) \in Quotes
    /\ find(data, peekAt(data, AttrQuoteAt), AttrQuoteAt + 1) = NPOS

OpenTagNotClosed ==
    pc = "attrs" /\ ~inAttrLoop /\ ~startsWith("/>") /\ ~startsWith(">")

ClosingTagMismatch ==
    /\ pc = "content" /\ ~eof /\ startsWith("</")
    /\ parseName(data, pos + 2) # Top.name

ClosingTagNotClosed ==
    /\ pc = "content" /\ ~eof /\ startsWith("</")
    /\ parseName(data, pos + 2) = Top.name
    /\ peekAt(data, skipWhitespace(data, parseNameEnd(data, pos + 2))) # ">"

SyntaxFault ==
    \/ MissingEquals
    \/ ValueNotQuoted
    \/ ValueUnterminated
    \/ OpenTagNotClosed
    \/ ClosingTagMismatch
    \/ ClosingTagNotClosed

\* C2: at any depth, a closing tag whose name is not the open element's, an
\* attribute name without "=", an attribute value that does not open with a
\* quote or whose closing quote is missing, and a missing ">" at the end of an
\* opening or closing tag each make the next step of parse the error, with no
\* tree; and nothing follows the error.
C2_SyntaxFaultsAreFatal ==
    [][pc # "error" /\ (SyntaxFault => (pc' = "error" /\ root' = NoTree))]_vars

\* the mismatched closing tag of "<a><b></a>", met inside b inside a, rejected
C2_Witness ==
    /\ data = "<a><b></a>"
    /\ pc = "error"
    /\ error = "Mismatched closing tag"
    /\ root = NoTree

\* text pieces that hold no complete entity: decoding leaves each as it is
PlainPieces == {"x", "&l", "t;"}

\* C4: text before and after a comment in element content gives two text
\* children, each decoded on its own: the comment flushes the pending text.
C4_CommentSplitsText ==
    \A t1 \in PlainPieces, t2 \in PlainPieces :
        (pc = "done" /\ data = "<a>" \o t1 \o "<!--c-->" \o t2 \o "</a>")
            => root.children = <<TextNode(t1), TextNode(t2)>>

\* a CDATA section in element content, closed
CdataInContent ==
    /\ pc = "content" /\ ~eof /\ startsWith("<![CDATA[")
    /\ find(data, "]]>", pos + 9) # NPOS

TextChild(t) == IF t = "" THEN <<>> ELSE <<TextNode(decodeEntities(t))>>

\* C5: a CDATA section in element content becomes a text child of its own,
\* holding exactly the characters up to the first "]]>", undecoded; the text
\* pending before it is flushed first as a decoded text child, the text after
\* it starts a new child, and children are only ever appended.
C5_CdataIsItsOwnTextNode ==
    /\ [][CdataInContent =>
            LET f == find(data, "]]>", pos + 9)
                raw == substr(data, pos + 9, f - (pos + 9))
            IN  /\ Len(stack') = Len(stack)
                /\ TopOf(stack').children
                       = Top.children \o TextChild(Top.textBuffer) \o <<TextNode(raw)>>
                /\ TopOf(stack').textBuffer = ""
                /\ pos' = f + 3]_vars
    /\ [](\A t1 \in PlainPieces \cup {""}, t2 \in PlainPieces \cup {""} :
            (pc = "done" /\ data = "<a>" \o t1 \o "<![CDATA[&lt;]]>" \o t2 \o "</a>")
                => root.children
                       = (IF t1 = "" THEN <<>> ELSE <<TextNode(t1)>>)
                         \o <<TextNode("&lt;")>>
                         \o (IF t2 = "" THEN <<>> ELSE <<TextNode(t2)>>))

\* "<a>x<![CDATA[&lt;]]>x</a>" parsed: three text children, the middle one verbatim
C5_Witness ==
    /\ pc = "done"
    /\ data = "<a>x<![CDATA[&lt;]]>x</a>"
    /\ root.children = <<TextNode("x"), TextNode("&lt;"), TextNode("x")>>

----------------------------------------------------------------------------
(* Claim about Converter::run, under SpecRun *)

RunEnded == runpc \in {"done", "failed"}

\* C3: in a batch, whatever the order of the directory, a document whose
\* conversion fails does not keep the others from being converted: when run
\* has ended, every document that can be converted has been written.
C3_FailureIsIsolated ==
    RunEnded => \A d \in Docs : files[d] = "ok" => d \in written

----------------------------------------------------------------------------
(* Claim about decodeEntities, under SpecDecode *)

Entity == {<<"&lt;", "<">>, <<"&gt;", ">">>, <<"&amp;", "&">>, <<"&quot;", "\"">>,
           <<"&apos;", "'">>}

\* one pass from the left: an entity at the front is replaced and passed over,
\* any other character is copied
RECURSIVE Replaced(_)
Replaced(s) ==
    IF s = "" THEN ""
    ELSE LET front == {e \in Entity : Len(e[1]) <= Len(s) /\ SubSeq(s, 1, Len(e[1])) = e[1]}
         IN  IF front # {}
             THEN LET e == CHOOSE x \in front : TRUE
                  IN  e[2] \o Replaced(SubSeq(s, Len(e[1]) + 1, Len(s)))
             ELSE SubSeq(s, 1, 1) \o Replaced(SubSeq(s, 2, Len(s)))

\* C6: the decoded text is the source text with each of the five entities
\* replaced in one pass from the left (a replacement is not decoded again),
\* every other "&" passed through as it is.
C6_DecodeIsOnePassReplacement ==
    dpc = "out" =>
        /\ decoded = Replaced(inText)
        /\ (inText = "&amp;lt;" => decoded = "&lt;")
        /\ (inText = "&foo; &" => decoded = "&foo; &")

\* the text of the specification's example, decoded
C6_Witness ==
    dpc = "out" /\ inText = "a &lt;b&gt; &amp; c" /\ decoded = "a <b> & c"

----------------------------------------------------------------------------
(* Claim about heading, under SpecHeading *)

\* clamp(lv + offset, 1, 6) over the integers
Clamped(lv, offset) ==
    IF offset > 6 THEN 6 ELSE IF offset < -6 THEN 1 ELSE clamp16(lv + offset)

\* C7: for every nominal level and every offset an int can hold, the heading
\* marker is exactly clamp(level + offset, 1, 6) characters "#".
C7_HeadingIsClamped ==
    hLevel # 0 => hMarker = Hashes(Clamped(hLevel, headingOffset))

----------------------------------------------------------------------------
(* Claims about the renderer, under SpecRender *)

MappedTags ==
    {"#text", "bold", "emphasis", "computeroutput", "ref", "itemizedlist",
     "orderedlist", "table", "programlisting", "para"}

\* the inline renderings of the children of a node, one after the other
RECURSIVE InlineOfAll(_)
InlineOfAll(kids) ==
    IF kids = <<>> THEN "" ELSE renderNodeInline(Head(kids)) \o InlineOfAll(Tail(kids))

DivOf(node) ==
    "<div class=\"doxygen-" \o node.name \o "\">" \o InlineOfAll(node.children) \o "</div>"

\* C8: inline rendering gives a text for every node, and for an element whose
\* tag has no mapping of its own that text is the div whose class is
\* "doxygen-" and the tag name, around the inline rendering of the children in
\* order; two such nodes of one tree with different tags get different
\* opening tags.
C8_UnknownTagsAreWrapped ==
    (op = "renderNodeInline" /\ subject.name \notin MappedTags) =>
        /\ rendered = DivOf(subject)
        /\ \A n \in Nodes(tree) :
               (n.name \notin MappedTags /\ n.name # subject.name) =>
                   SubSeq(renderNodeInline(n), 1, Len(n.name) + 22)
                       # SubSeq(rendered, 1, Len(subject.name) + 22)

\* the example of the specification
C8_Witness ==
    /\ op = "renderNodeInline"
    /\ subject = El("xrefsect", <<>>, <<Hi>>)
    /\ rendered = "<div class=\"doxygen-xrefsect\">hi</div>"

\* the renderings of the compounddef nodes among kids, in order
RECURSIVE CompoundRenderings(_, _)
CompoundRenderings(kids, offset) ==
    IF kids = <<>> THEN <<>>
    ELSE (IF Head(kids).name = "compounddef"
          THEN <<renderCompound(Head(kids), offset)>> ELSE <<>>)
         \o CompoundRenderings(Tail(kids), offset)

\* the parts with sep between consecutive ones
RECURSIVE Joined(_, _)
Joined(parts, sep) ==
    IF parts = <<>> THEN ""
    ELSE IF Len(parts) = 1 THEN parts[1]
    ELSE parts[1] \o sep \o Joined(Tail(parts), sep)

\* each part followed by end
RECURSIVE Terminated(_, _)
Terminated(parts, end) ==
    IF parts = <<>> THEN "" ELSE parts[1] \o end \o Terminated(Tail(parts), end)

\* C9 as stated: under a doxygen root the renderings of the compounddef
\* children are joined, a separator standing between consecutive ones only;
\* a compounddef root renders as renderCompound, any other root as the fallback.
C9_CompoundsAreJoined ==
    op = "renderDocument" =>
        IF tree.name = "doxygen"
        THEN \E sep \in {"\n", "\n\n"} :
                 rendered = Joined(CompoundRenderings(tree.children, headingOffset), sep)
        ELSE IF tree.name = "compounddef"
        THEN rendered = renderCompound(tree, headingOffset)
        ELSE rendered = DivOf(tree)

\* C9, amended: under a doxygen root the output is the rendering of each
\* compounddef child in document order, each followed by one newline, the last
\* one too, and nothing for the other children; a compounddef root renders as
\* renderCompound, any other root as the fallback.
C9_DocumentDispatch ==
    op = "renderDocument" =>
        IF tree.name = "doxygen"
        THEN rendered = Terminated(CompoundRenderings(tree.children, headingOffset), "\n")
        ELSE IF tree.name = "compounddef"
        THEN rendered = renderCompound(tree, headingOffset)
        ELSE rendered = DivOf(tree)

\* a doxygen root with a compound, then another child, rendered
C9_Witness ==
    /\ op = "renderDocument"
    /\ tree = El("doxygen", <<>>, <<CompoundOf(FullMember), El("other", <<>>, <<Hi>>)>>)
    /\ rendered = renderCompound(CompoundOf(FullMember), headingOffset) \o "\n"

\* the first child of the node with that name, by a search of its own
HasChild(node, key) == \E i \in 1..Len(node.children) : node.children[i].name = key

FirstChild(node, key) ==
    node.children[CHOOSE i \in 1..Len(node.children) :
        /\ node.children[i].name = key
        /\ \A j \in 1..(i - 1) : node.children[j].name # key]

TextOfChild(node, key, default) ==
    IF HasChild(node, key) THEN nodeText(FirstChild(node, key)) ELSE default

MemberHeading(member, signature) ==
    Hashes(clamp16(3 + headingOffset)) \o " " \o signature \o "\n\n"
        \o descriptions(member)

\* C10 as stated: the signature is the definition text and the argsstring
\* text whenever a definition child is present, even one with empty text, and
\* the bare member name only without a definition child.
C10_SignatureWheneverDefinitionPresent ==
    op = "renderMember" =>
        rendered = MemberHeading(subject,
            IF HasChild(subject, "definition")
            THEN TextOfChild(subject, "definition", "") \o TextOfChild(subject, "argsstring", "")
            ELSE TextOfChild(subject, "name", "member"))

\* C10, amended: the signature is the definition text and the argsstring text
\* whenever a definition child is present and its text is not empty; it is the
\* bare member name ("member" without a name child) when there is no
\* definition child or its text is empty.
C10_Signature ==
    op = "renderMember" =>
        rendered = MemberHeading(subject,
            IF HasChild(subject, "definition") /\ TextOfChild(subject, "definition", "") # ""
            THEN TextOfChild(subject, "definition", "") \o TextOfChild(subject, "argsstring", "")
            ELSE TextOfChild(subject, "name", "member"))

\* a member with a definition without text, and an argsstring, rendered
C10_Witness ==
    /\ op = "renderMember"
    /\ HasChild(subject, "definition")
    /\ TextOfChild(subject, "definition", "") = ""
    /\ HasChild(subject, "argsstring")
    /\ HasChild(subject, "name")
    /\ rendered = MemberHeading(subject, "f")

----------------------------------------------------------------------------
(* Claims about tables, compounds, descriptions and lists, under SpecRender *)

EntriesOf(row) == SelectSeq(row.children, LAMBDA e : e.name = "entry")

HasCells(row) == EntriesOf(row) # <<>>

\* the cells of a row, each between <tag> and </tag>
RECURSIVE CellsOf(_, _)
CellsOf(entries, tag) ==
    IF entries = <<>> THEN ""
    ELSE "<" \o tag \o ">" \o InlineOfAll(Head(entries).children) \o "</" \o tag \o ">"
         \o CellsOf(Tail(entries), tag)

\* the line of a row with cells, nothing for a row without
RowLine(row, tag) ==
    IF HasCells(row) THEN "<tr>" \o CellsOf(EntriesOf(row), tag) \o "</tr>\n" ELSE ""

RECURSIVE BodyLines(_)
BodyLines(rows) ==
    IF rows = <<>> THEN "" ELSE RowLine(Head(rows), "td") \o BodyLines(Tail(rows))

\* the table element around the lines, nothing when there is no line
TableOf(lines) ==
    "\n" \o (IF lines = "" THEN ""
             ELSE "<table class=\"doxygen-table\">\n" \o lines \o "</table>\n")
         \o "\n"

RowsOf(table) == SelectSeq(table.children, LAMBDA r : r.name = "row")

\* C11 as stated: the first row child of a table is the header row, every row
\* child after it is a body row, and a row without an entry gives no line.
C11_FirstRowChildIsHeader ==
    (op = "renderNodeInline" /\ subject.name = "table") =>
        rendered = TableOf(IF RowsOf(subject) = <<>> THEN ""
                           ELSE RowLine(Head(RowsOf(subject)), "th")
                                    \o BodyLines(Tail(RowsOf(subject))))

\* C11, amended: rows without an entry give no line and are not counted; of
\* the rows with an entry the first is the header row (th cells) and the
\* others are body rows (td cells), each cell holding the inline rendering of
\* the children of its entry; a table with one such row has the header row
\* only, and a table with none renders no table element.
C11_FirstRowWithCellsIsHeader ==
    (op = "renderNodeInline" /\ subject.name = "table") =>
        LET rows == SelectSeq(RowsOf(subject), HasCells)
        IN  rendered = TableOf(IF rows = <<>> THEN ""
                               ELSE RowLine(Head(rows), "th") \o BodyLines(Tail(rows)))

\* a table whose first row has no cell, rendered: the second row is the header
C11_Witness ==
    /\ op = "renderNodeInline"
    /\ subject = TableEmptyFirst
    /\ rendered = "\n<table class=\"doxygen-table\">\n<tr><th>hi</th></tr>\n"
                      \o "<tr><td>x</td></tr>\n</table>\n\n"

\* the value of the first attribute of that name
RECURSIVE AttrValue(_, _, _)
AttrValue(attrs, key, default) ==
    IF attrs = <<>> THEN default
    ELSE IF Head(attrs).name = key THEN Head(attrs).value
    ELSE AttrValue(Tail(attrs), key, default)

HeadingAt(level) == Hashes(clamp16(level + headingOffset))

\* the first child of that name as a description block, nothing without one
BlockOf(node, key) ==
    IF HasChild(node, key) THEN renderDescription(FirstChild(node, key)) ELSE ""

\* the level-3 rendering of the memberdef children, in document order
RECURSIVE MembersOf(_)
MembersOf(kids) ==
    IF kids = <<>> THEN ""
    ELSE (IF Head(kids).name = "memberdef"
          THEN renderMember(Head(kids), 3, headingOffset) ELSE "")
         \o MembersOf(Tail(kids))

\* a level-2 heading and the members for each sectiondef, in document order
RECURSIVE SectionsOf(_)
SectionsOf(kids) ==
    IF kids = <<>> THEN ""
    ELSE (IF Head(kids).name = "sectiondef"
          THEN "\n" \o HeadingAt(2) \o " "
                   \o AttrValue(Head(kids).attributes, "kind", "Members") \o "\n\n"
                   \o MembersOf(Head(kids).children)
          ELSE "")
         \o SectionsOf(Tail(kids))

\* C12: whatever the order of its children, a compound renders as the level-1
\* heading with its name and kind (default label without the attribute), then
\* the brief description if present, then the detailed description if
\* present, then for each sectiondef in document order a level-2 heading
\* titled by its kind (Members without) and the level-3 rendering of each of
\* its memberdef children in document order.
C12_CompoundOrder ==
    op = "renderCompound" =>
        rendered =
            HeadingAt(1) \o " " \o TextOfChild(subject, "compoundname", "Unknown")
                \o " (" \o AttrValue(subject.attributes, "kind", "compound") \o ")\n\n"
                \o BlockOf(subject, "briefdescription")
                \o BlockOf(subject, "detaileddescription")
                \o SectionsOf(subject.children)

\* a compound whose children are in another order than the output, rendered
C12_Witness ==
    /\ op = "renderCompound"
    /\ subject = ReversedCompound
    /\ headingOffset = 0
    /\ rendered = "# n (class)\n\nhi\n\nplain\n\n\n## func\n\n### int f(int)\n\n"
                      \o "\n## Members\n\n### member\n\n"

\* the blocks of the children of a description, each with its blank line
RECURSIVE BlocksOf(_)
BlocksOf(kids) ==
    IF kids = <<>> THEN ""
    ELSE LET c == Head(kids)
         IN  (IF c.name = "para" THEN InlineOfAll(c.children) \o "\n\n"
              ELSE IF c.name = "#text" THEN (IF c.text = "" THEN "" ELSE c.text \o "\n\n")
              ELSE DivOf(c) \o "\n\n")
             \o BlocksOf(Tail(kids))

\* C13: a description renders as the blocks of its direct children in document
\* order, each followed by a blank line: the inline rendering of a para, the
\* text of a text child that is not empty, the fallback div of any other
\* child (one the inline rendering maps too); a description without content
\* renders as the empty string.
C13_DescriptionBlocks ==
    op = "renderDescription" =>
        /\ rendered = BlocksOf(subject.children)
        /\ (\A i \in 1..Len(subject.children) : subject.children[i] = TextNode(""))
               => rendered = ""

\* a description with a bold child and a paragraph, rendered
C13_Witness ==
    /\ op = "renderDescription"
    /\ subject.children = <<El("bold", <<>>, <<Hi>>), ParaHi>>
    /\ rendered = "<div class=\"doxygen-bold\">hi</div>\n\nhi\n\n"

\* one line for each listitem: the marker, a space, the content inlined
RECURSIVE ItemLines(_, _)
ItemLines(kids, marker) ==
    IF kids = <<>> THEN ""
    ELSE (IF Head(kids).name = "listitem"
          THEN marker \o " " \o InlineOfAll(Head(kids).children) \o "\n"
          ELSE "")
         \o ItemLines(Tail(kids), marker)

\* how many newlines the text holds
RECURSIVE Newlines(_)
Newlines(s) ==
    IF s = "" THEN 0
    ELSE (IF Head(s) = "\n" THEN 1 ELSE 0) + Newlines(Tail(s))

ItemsOf(list) == SelectSeq(list.children, LAMBDA c : c.name = "listitem")

\* C14: a list renders, between two newlines, as exactly one line for each
\* listitem child in document order: the marker (- for an itemized list, 1.
\* for every item of an ordered list), a space and the content of the item
\* inlined; a child that is not a listitem gives no line.
C14_OneLinePerItem ==
    (op = "renderNodeInline" /\ subject.name \in {"itemizedlist", "orderedlist"}) =>
        LET marker == IF subject.name = "itemizedlist" THEN "-" ELSE "1."
        IN  /\ rendered = "\n" \o ItemLines(subject.children, marker) \o "\n"
            /\ Newlines(rendered) = Len(ItemsOf(subject)) + 2

----------------------------------------------------------------------------
(* Claims about the configuration, under SpecConfig *)

\* the file was loaded by --config and applyCliArgs returned
Loaded == cpc = "done" /\ argv = <<"--config", ConfigPath>>

\* C16: after --config FILE, each key of the README that the file holds
\* (input_xml_dir, output_mdx_dir, css_output_path, project_name,
\* heading_offset, emit_index) has set its field of the configuration to the
\* value the file gives it.
C16_ReadmeKeysConfigure ==
    Loaded =>
        LET kv == parseYamlLike(configFile)
            has(key) == key \in DOMAIN kv
        IN  /\ has("input_xml_dir") => cfg.inputXmlDir = kv["input_xml_dir"]
            /\ has("output_mdx_dir") => cfg.outputMdxDir = kv["output_mdx_dir"]
            /\ has("css_output_path") => cfg.cssOutputPath = kv["css_output_path"]
            /\ has("project_name") => cfg.projectName = kv["project_name"]
            /\ has("heading_offset") => cfg.headingOffset = stoi(kv["heading_offset"]).value
            /\ has("emit_index") => cfg.emitIndex = (kv["emit_index"] # "false")

\* the positions of argv read as an argument, not as the value of the one
\* before
RECURSIVE ArgPositions(_, _)
ArgPositions(args, i) ==
    IF i > Len(args) THEN {}
    ELSE {i} \cup ArgPositions(args, IF args[i] \in ValueFlags \cup {"--config"}
                                     THEN i + 2 ELSE i + 1)

Largest(S) == CHOOSE m \in S : \A n \in S : n <= m

\* where the last --config is, 0 without one
LastConfig ==
    LET at == {i \in ArgPositions(argv, 1) : argv[i] = "--config"}
    IN  IF at = {} THEN 0 ELSE Largest(at)

\* the configuration the flags are laid over
FromFile == IF LastConfig = 0 THEN Defaults ELSE parseConfig(parseYamlLike(configFile))

\* the value of the last of these flags after the last --config, or what the
\* file (or the default) gives
Setting(flags, fromFile) ==
    LET at == {i \in ArgPositions(argv, 1) : i > LastConfig /\ argv[i] \in flags}
    IN  IF at = {} THEN fromFile ELSE argv[Largest(at) + 1]

\* C18: the arguments are taken from left to right; the configuration returned
\* is the one of the file of the last --config (the defaults for the keys it
\* lacks, the defaults without --config), with each field set by the last
\* flag for it after that --config: what a flag before --config set is gone.
C18_LaterArgumentsWin ==
    /\ [][argi' >= argi]_vars
    /\ [](cpc = "done" =>
             cfg = [inputXmlDir |-> Setting({"--input", "-i"}, FromFile.inputXmlDir),
                    outputMdxDir |-> Setting({"--output", "-o"}, FromFile.outputMdxDir),
                    cssOutputPath |-> Setting({"--css"}, FromFile.cssOutputPath),
                    projectName |-> Setting({"--project"}, FromFile.projectName),
                    headingOffset |->
                        LET at == {i \in ArgPositions(argv, 1) :
                                      i > LastConfig /\ argv[i] = "--heading-offset"}
                        IN  IF at = {} THEN FromFile.headingOffset
                            ELSE stoi(argv[Largest(at) + 1]).value,
                    emitIndex |->
                        IF \E i \in ArgPositions(argv, 1) :
                               i > LastConfig /\ argv[i] = "--no-index"
                        THEN FALSE ELSE FromFile.emitIndex])

\* --project before --config and --css after it, the file holding neither key
C18_Witness ==
    /\ cpc = "done"
    /\ argv = <<"--project", "P2", "--config", ConfigPath, "--css", "c2">>
    /\ configFile = "emit_index: true\ninput: in3"
    /\ cfg = [Defaults EXCEPT !.inputXmlDir = "in3", !.cssOutputPath = "c2"]

----------------------------------------------------------------------------
(* Claims about the progress of the parser, under SpecLive *)

\* C17: the scan position stays within the input and never goes back; every
\* iteration of the attribute loop and of the content loop, the end of an
\* opening tag and every parseNode call moves it forward by at least one
\* character or throws (the iteration of the content loop that meets a child
\* calls parseNode, which does); and parse ends, with a tree or with an error.
C17_ForwardProgress ==
    /\ [](0 <= pos /\ pos <= Len(data))
    /\ [][pos' >= pos]_vars
    /\ [][(pc \in {"node", "attrs"} \/ (pc = "content" /\ ~eof))
             => \/ pos' > pos
                \/ pc' = "error"
                \/ pc = "content" /\ pc' = "node"]_vars
    /\ [](pc = "done" => root # NoTree)
    /\ [](pc = "error" => root = NoTree /\ error # "")
    /\ <>(pc \in {"done", "error"})

\* a document with a comment and a child, parsed to its end
C17_Witness ==
    /\ data = "<a><!--c--><b></b></a>"
    /\ pc = "done"
    /\ pos = Len(data)
    /\ root = El("a", <<>>, <<El("b", <<>>, <<>>)>>)

====
